---------------------------- MODULE Spec2Model ----------------------------
(***************************************************************************)
(* jellywal: the open-time load of the write-ahead log (src/jellywal.go).  *)
(*                                                                         *)
(* The state is the Log object, the log directory it is opened against,    *)
(* and the position of loadSegments in its code.  Bytes and characters are *)
(* integers 0..255; a file name is the sequence of its characters.         *)
(*                                                                         *)
(* A uint64 does not fit TLC's integers, so the two uint64 values of the   *)
(* code keep their full width in limbs:                                    *)
(*   - a segment index is four base-100000 limbs, most significant first   *)
(*     (twenty decimal digits);                                            *)
(*   - an entry size is the sequence of the base-128 digits of its varint, *)
(*     least significant first.                                            *)
(***************************************************************************)
EXTENDS Integers, Sequences, FiniteSets

\* No error.
Nil == "nil"

ErrCorrupt == "ErrCorrupt"

\* An error of the file system (os.ReadDir, os.OpenFile), wrapped by the caller.
ErrIO == "ErrIO"

(***************************************************************************)
(* Bounds of the model.                                                    *)
(***************************************************************************)
\* The most entries a modelled log directory holds.
MaxEntries == 2

\* The most bytes that follow the run of continuation bytes in a tail file.
MaxTail == 3

\* The longest run of 0x80 continuation bytes a tail file starts with.
MaxRun == 10

-----------------------------------------------------------------------------
(***************************************************************************)
(* Go slices whose being nil matters (cbuf, cpos): a nil flag and the      *)
(* elements.  The other slices are plain sequences.                        *)
(***************************************************************************)
NilSlice == [nil |-> TRUE, elems |-> <<>>]

Slice(elems) == [nil |-> FALSE, elems |-> elems]

GoLen(s) == Len(s.elems)

GoAppend(s, x) == [nil |-> FALSE, elems |-> Append(s.elems, x)]

\* A nil *os.File.
NoFile == [open |-> FALSE, path |-> <<>>, flag |-> "", offset |-> 0]

Zeros(n) == [i \in 1..n |-> 48]

RECURSIVE LexLess(_, _)
\* a < b for Go strings: bytewise, a proper prefix first.
LexLess(a, b) ==
    IF b = <<>> THEN FALSE
    ELSE IF a = <<>> THEN TRUE
    ELSE IF Head(a) # Head(b) THEN Head(a) < Head(b)
    ELSE LexLess(Tail(a), Tail(b))

-----------------------------------------------------------------------------
(***************************************************************************)
(* encoding/binary.Uvarint, as loadNextBinaryEntry calls it.               *)
(***************************************************************************)
MaxVarintLen64 == 10

RECURSIVE UvarintFrom(_, _, _)
\* The loop of Uvarint at byte i (0-based) with the digits x read so far.
UvarintFrom(buf, i, x) ==
    IF i >= Len(buf) THEN [val |-> <<>>, n |-> 0]
    ELSE IF i = MaxVarintLen64 THEN [val |-> <<>>, n |-> -(i + 1)]
    ELSE IF buf[i + 1] < 128
         THEN IF i = MaxVarintLen64 - 1 /\ buf[i + 1] > 1
              THEN [val |-> <<>>, n |-> -(i + 1)]
              ELSE [val |-> Append(x, buf[i + 1]), n |-> i + 1]
         ELSE UvarintFrom(buf, i + 1, Append(x, buf[i + 1] % 128))

RECURSIVE UvarintAnyWidth(_, _, _)
UvarintAnyWidth(buf, i, x) ==
    IF i >= Len(buf) THEN [val |-> <<>>, n |-> 0]
    ELSE IF buf[i + 1] < 128 THEN [val |-> Append(x, buf[i + 1]), n |-> i + 1]
    ELSE UvarintAnyWidth(buf, i + 1, Append(x, buf[i + 1] % 128))

\* Uvarint without its overflow checks: a varint of any width is decoded.
UvarintNoOverflow(buf) == UvarintAnyWidth(buf, 0, <<>>)

Uvarint(buf) == UvarintFrom(buf, 0, <<>>)

\* The digits of a size above the fourth are zero: the size is below 2^28.
SizeIsSmall(size) == \A i \in 1..Len(size) : i > 4 => size[i] = 0

RECURSIVE SizeLow(_, _)
\* The value of the first (at most four) digits of a size, from digit i on.
SizeLow(size, i) ==
    IF i > Len(size) \/ i > 4 THEN 0 ELSE size[i] + 128 * SizeLow(size, i + 1)

\* uint64(n) < size, for 0 <= n < 2^28.
SizeExceeds(size, n) == ~SizeIsSmall(size) \/ SizeLow(size, 1) > n

\* int(size), for a size below 2^28.
SizeInt(size) == SizeLow(size, 1)

-----------------------------------------------------------------------------
(***************************************************************************)
(* Segment indexes (uint64) and segment file names.                        *)
(***************************************************************************)
\* The limbs of a small natural number as a uint64.
U64(n) == <<0, 0, n \div 100000, n % 100000>>

MaxUint64 == <<18446, 74407, 37095, 51615>>

IsDigit(c) == c >= 48 /\ c <= 57

RECURSIVE DecimalValue(_)
\* The value of a sequence of at most five decimal digits.
DecimalValue(ds) ==
    IF ds = <<>> THEN 0
    ELSE 10 * DecimalValue(SubSeq(ds, 1, Len(ds) - 1)) + (ds[Len(ds)] - 48)

\* strconv.ParseUint(s, 10, 64): a syntax error on an empty string or on any
\* character that is not a decimal digit, a range error above 2^64 - 1.
ParseUint(s) ==
    IF s = <<>> \/ \E i \in 1..Len(s) : ~IsDigit(s[i])
    THEN [err |-> "syntax", val |-> U64(0)]
    ELSE LET lead == IF Len(s) > 20 THEN SubSeq(s, 1, Len(s) - 20) ELSE <<>>
             low  == IF Len(s) > 20 THEN SubSeq(s, Len(s) - 19, Len(s))
                     ELSE Zeros(20 - Len(s)) \o s
             val  == [k \in 1..4 |-> DecimalValue(SubSeq(low, 5 * k - 4, 5 * k))]
         IN  IF (\E i \in 1..Len(lead) : lead[i] # 48) \/ LexLess(MaxUint64, val)
             THEN [err |-> "range", val |-> MaxUint64]
             ELSE [err |-> Nil, val |-> val]

RECURSIVE Pow10(_)
Pow10(k) == IF k = 0 THEN 1 ELSE 10 * Pow10(k - 1)

\* fmt.Sprintf("%020d", index)
segmentName(index) ==
    [i \in 1..20 |->
        48 + ((index[((i - 1) \div 5) + 1] \div Pow10(4 - ((i - 1) % 5))) % 10)]

\* The log directory, and filepath.Join(l.path, name).
LogPath == "wal"

Join(dir, name) == <<dir, name>>

-----------------------------------------------------------------------------
(***************************************************************************)
(* The directories and tail files the log is opened against.               *)
(***************************************************************************)
\* Names that are segment names: indexes 1, 2, 10 and 2^64 - 1.
SegmentNames ==
    {segmentName(U64(1)), segmentName(U64(2)), segmentName(U64(10)),
     segmentName(MaxUint64)}

\* Names that are not: index 0, 19 digits, 21 digits, a letter, a sign,
\* 2^64, and a short name ("LOCK").
StrayNames ==
    {Zeros(20), Zeros(18) \o <<49>>, segmentName(U64(2)) \o <<48>>,
     Zeros(19) \o <<120>>, <<43>> \o Zeros(18) \o <<49>>,
     SubSeq(segmentName(MaxUint64), 1, 19) \o <<54>>, <<76, 79, 67, 75>>}

Names == SegmentNames \cup StrayNames

\* What a file of a directory of several entries holds: nothing, one record,
\* a record cut short.
FileContents == {<<>>, <<1, 65>>, <<2, 65>>}

DirEntries ==
    {[isDir |-> TRUE, data |-> <<>>]}
        \cup {[isDir |-> FALSE, data |-> c] : c \in FileContents}

\* The bytes tail files are made of: lengths 0, 1, 2 and the continuation
\* bytes 0x80, 0x81.
ByteVals == {0, 1, 2, 128, 129}

RECURSIVE SeqsUpTo(_, _)
SeqsUpTo(S, n) ==
    IF n = 0 THEN {<<>>}
    ELSE LET shorter == SeqsUpTo(S, n - 1)
         IN  shorter \cup {Append(s, x) : s \in shorter, x \in S}

\* A run of 0, or of 8 to MaxRun, continuation bytes 0x80, then a tail.
Buffers ==
    {[i \in 1..k |-> 128] \o t : k \in {0} \cup 8..MaxRun, t \in SeqsUpTo(ByteVals, MaxTail)}

-----------------------------------------------------------------------------
VARIABLES
    fs,              \* the log directory: whether it exists, and name -> entry
    pc,              \* where loadSegments is
    segments,        \* l.segments
    sfile,           \* l.sfile: NoFile, or the open handle
    corrupt,         \* l.corrupt
    closed,          \* l.closed
    err,             \* the error loadSegments returns
    data,            \* loadSegmentEntries: the bytes not decoded yet
    entryBuffer,     \* loadSegmentEntries: the bytes read
    entryPositions,  \* loadSegmentEntries: the positions decoded so far
    currentPosition, \* loadSegmentEntries: the offset of data in entryBuffer
    fsCalls          \* the files opened and read: <<call, path>>

vars == <<fs, pc, segments, sfile, corrupt, closed, err, data, entryBuffer,
          entryPositions, currentPosition, fsCalls>>

logVars == <<corrupt, closed>>

loadVars == <<data, entryBuffer, entryPositions, currentPosition>>

\* A Log before loadSegments: the zero value but for path and config.
NewLog ==
    /\ pc = "loadSegments"
    /\ segments = <<>>
    /\ sfile = NoFile
    /\ corrupt = FALSE
    /\ closed = FALSE
    /\ err = Nil
    /\ data = <<>>
    /\ entryBuffer = <<>>
    /\ entryPositions = NilSlice
    /\ currentPosition = 0
    /\ fsCalls = {}

\* A directory of at most MaxEntries entries, or no directory.
InitDirectory ==
    /\ \/ fs = [exists |-> FALSE, entries |-> <<>>]
       \/ \E S \in SUBSET Names :
            /\ Cardinality(S) <= MaxEntries
            /\ \E es \in [S -> DirEntries] : fs = [exists |-> TRUE, entries |-> es]
    /\ NewLog

\* A directory of one segment file, of any bytes.
InitTail ==
    /\ \E b \in Buffers :
         fs = [exists  |-> TRUE,
               entries |-> [n \in {segmentName(U64(1))} |->
                               [isDir |-> FALSE, data |-> b]]]
    /\ NewLog

Init == InitDirectory \/ InitTail

-----------------------------------------------------------------------------
(***************************************************************************)
(* The file system calls of the load.                                      *)
(***************************************************************************)
RECURSIVE SortNames(_)
SortNames(S) ==
    IF S = {} THEN <<>>
    ELSE LET m == CHOOSE x \in S : \A y \in S \ {x} : LexLess(x, y)
         IN  <<m>> \o SortNames(S \ {m})

\* A listing in the opposite order.
ReadDirUnsorted(fsys) ==
    LET names == SortNames(DOMAIN fsys.entries)
    IN  [i \in 1..Len(names) |->
            [name  |-> names[Len(names) + 1 - i],
             isDir |-> fsys.entries[names[Len(names) + 1 - i]].isDir]]

\* os.ReadDir: the entries of the directory, sorted by file name.
ReadDir(fsys) ==
    LET names == SortNames(DOMAIN fsys.entries)
    IN  [i \in 1..Len(names) |->
            [name |-> names[i], isDir |-> fsys.entries[names[i]].isDir]]

\* os.OpenFile(path, O_CREATE|O_RDWR|O_TRUNC, perm): a directory of that name
\* fails it; else the file is there and empty afterwards.
OpenFileCreate(fsys, path) ==
    LET name == path[2]
    IN  IF name \in DOMAIN fsys.entries /\ fsys.entries[name].isDir
        THEN [err |-> ErrIO, fs |-> fsys, file |-> NoFile]
        ELSE [err  |-> Nil,
              fs   |-> [fsys EXCEPT !.entries =
                           [n \in DOMAIN fsys.entries \cup {name} |->
                               IF n = name THEN [isDir |-> FALSE, data |-> <<>>]
                               ELSE fsys.entries[n]]],
              file |-> [open |-> TRUE, path |-> path,
                        flag |-> "O_CREATE|O_RDWR|O_TRUNC", offset |-> 0]]

\* The open of the tail with O_TRUNC: the file is emptied.
OpenFileWrOnlyTrunc(fsys, path) ==
    LET name == path[2]
    IN  IF name \notin DOMAIN fsys.entries \/ fsys.entries[name].isDir
        THEN [err |-> ErrIO, fs |-> fsys, file |-> NoFile]
        ELSE [err  |-> Nil,
              fs   |-> [fsys EXCEPT !.entries[name].data = <<>>],
              file |-> [open |-> TRUE, path |-> path, flag |-> "O_WRONLY|O_TRUNC",
                        offset |-> 0]]

\* os.OpenFile(path, O_WRONLY, perm): the file must be there; nothing changes.
OpenFileWrOnly(fsys, path) ==
    LET name == path[2]
    IN  IF name \notin DOMAIN fsys.entries \/ fsys.entries[name].isDir
        THEN [err |-> ErrIO, fs |-> fsys, file |-> NoFile]
        ELSE [err  |-> Nil,
              fs   |-> fsys,
              file |-> [open |-> TRUE, path |-> path, flag |-> "O_WRONLY",
                        offset |-> 0]]

\* l.sfile.Seek(0, 2): to the end of the file.
SeekEnd(fsys, file) == [file EXCEPT !.offset = Len(fsys.entries[file.path[2]].data)]

\* os.ReadFile(path)
ReadFile(fsys, path) == fsys.entries[path[2]].data

-----------------------------------------------------------------------------
(***************************************************************************)
(* loadSegments                                                            *)
(***************************************************************************)
RECURSIVE ScanEntriesAnyLength(_, _, _)
\* The loop without its test len(name) == 20.
ScanEntriesAnyLength(files, i, segs) ==
    IF i > Len(files) THEN segs
    ELSE LET name == files[i].name
         IN  IF files[i].isDir \/ Len(name) < 20
             THEN ScanEntriesAnyLength(files, i + 1, segs)
             ELSE LET parsed == ParseUint(SubSeq(name, 1, 20))
                  IN  IF parsed.err # Nil \/ parsed.val = U64(0)
                      THEN ScanEntriesAnyLength(files, i + 1, segs)
                      ELSE ScanEntriesAnyLength(files, i + 1,
                               Append(segs, [index |-> parsed.val,
                                             path  |-> Join(LogPath, name),
                                             cbuf  |-> NilSlice,
                                             cpos  |-> NilSlice]))

RECURSIVE ScanEntries(_, _, _)
\* The loop over the directory entries, from entry i on.
ScanEntries(files, i, segs) ==
    IF i > Len(files) THEN segs
    ELSE LET name == files[i].name
         IN  IF files[i].isDir \/ Len(name) < 20
             THEN ScanEntries(files, i + 1, segs)
             ELSE LET parsed == ParseUint(SubSeq(name, 1, 20))
                  IN  IF parsed.err # Nil \/ parsed.val = U64(0)
                      THEN ScanEntries(files, i + 1, segs)
                      ELSE IF Len(name) = 20
                      THEN ScanEntries(files, i + 1,
                               Append(segs, [index |-> parsed.val,
                                             path  |-> Join(LogPath, name),
                                             cbuf  |-> NilSlice,
                                             cpos  |-> NilSlice]))
                      ELSE ScanEntries(files, i + 1, segs)

\* os.ReadDir fails: the directory is not there.
ReadDirFails ==
    /\ pc = "loadSegments"
    /\ ~fs.exists
    /\ err' = ErrIO
    /\ pc' = "done"
    /\ UNCHANGED <<fs, segments, sfile, logVars, loadVars, fsCalls>>

\* os.ReadDir and the loop that registers the segment files.
ScanDirectory ==
    /\ pc = "loadSegments"
    /\ fs.exists
    /\ segments' = ScanEntries(ReadDir(fs), 1, segments)
    /\ pc' = "scanned"
    /\ UNCHANGED <<fs, sfile, logVars, err, loadVars, fsCalls>>

\* The first segment taken for the last.
TailPosFirst(segs) == 1

\* The position of l.segments[len(l.segments)-1].
TailPos(segs) == Len(segs)

\* createInitialSegment without l.sfile = file.
createInitialSegmentNoHandle ==
    /\ pc = "scanned"
    /\ Len(segments) = 0
    /\ LET initialSegment == [index |-> U64(1),
                              path  |-> Join(LogPath, segmentName(U64(1))),
                              cbuf  |-> NilSlice,
                              cpos  |-> NilSlice]
           opened == OpenFileCreate(fs, initialSegment.path)
       IN  /\ segments' = Append(segments, initialSegment)
           /\ fsCalls' = fsCalls \cup {<<"OpenFile", initialSegment.path>>}
           /\ fs' = opened.fs
           /\ err' = opened.err
           /\ pc' = "done"
    /\ UNCHANGED <<sfile, logVars, loadVars>>

\* No segment: createInitialSegment.
createInitialSegment ==
    /\ pc = "scanned"
    /\ Len(segments) = 0
    /\ LET initialSegment == [index |-> U64(1),
                              path  |-> Join(LogPath, segmentName(U64(1))),
                              cbuf  |-> NilSlice,
                              cpos  |-> NilSlice]
           opened == OpenFileCreate(fs, initialSegment.path)
       IN  /\ segments' = Append(segments, initialSegment)
           /\ fsCalls' = fsCalls \cup {<<"OpenFile", initialSegment.path>>}
           /\ fs' = opened.fs
           /\ err' = opened.err
           /\ sfile' = IF opened.err # Nil THEN sfile ELSE opened.file
           /\ pc' = "done"
    /\ UNCHANGED <<logVars, loadVars>>

\* Some segment: openLastSegment up to the seek, on the last one.
openLastSegment ==
    /\ pc = "scanned"
    /\ Len(segments) # 0
    /\ LET lastSegment == segments[TailPos(segments)]
           opened == OpenFileWrOnly(fs, lastSegment.path)
       IN  /\ fsCalls' = fsCalls \cup {<<"OpenFile", lastSegment.path>>}
           /\ fs' = opened.fs
           /\ IF opened.err # Nil
              THEN /\ err' = opened.err
                   /\ pc' = "done"
                   /\ sfile' = sfile
              ELSE /\ err' = err
                   /\ pc' = "opened"
                   /\ sfile' = SeekEnd(fs, opened.file)
    /\ UNCHANGED <<segments, logVars, loadVars>>

-----------------------------------------------------------------------------
(***************************************************************************)
(* loadSegmentEntries, on the last segment                                 *)
(***************************************************************************)
\* loadNextBinaryEntry without the test of the size against the bytes left.
loadNextBinaryEntryNoLengthCheck(buf) ==
    LET u == Uvarint(buf)
    IN  IF u.n <= 0 THEN [n |-> 0, err |-> ErrCorrupt]
        ELSE [n |-> u.n + SizeInt(u.val), err |-> Nil]

\* loadNextBinaryEntry with <= for <: an entry that ends the buffer is refused.
loadNextBinaryEntryOffByOne(buf) ==
    LET u == Uvarint(buf)
    IN  IF u.n <= 0 THEN [n |-> 0, err |-> ErrCorrupt]
        ELSE IF Len(buf) - u.n = 0 \/ SizeExceeds(u.val, Len(buf) - u.n - 1)
             THEN [n |-> 0, err |-> ErrCorrupt]
        ELSE [n |-> u.n + SizeInt(u.val), err |-> Nil]

loadNextBinaryEntry(buf) ==
    LET u == Uvarint(buf)
    IN  IF u.n <= 0 THEN [n |-> 0, err |-> ErrCorrupt]
        ELSE IF SizeExceeds(u.val, Len(buf) - u.n) THEN [n |-> 0, err |-> ErrCorrupt]
        ELSE [n |-> u.n + SizeInt(u.val), err |-> Nil]

\* bytepos{currentPosition, bytesRead}
EntryPositionFromZero(cur, bytesRead) == [start |-> cur, end |-> bytesRead]

\* bytepos{currentPosition, currentPosition + bytesRead}
EntryPosition(cur, bytesRead) == [start |-> cur, end |-> cur + bytesRead]

\* os.ReadFile and the locals before the loop.
loadSegmentEntriesRead ==
    /\ pc = "opened"
    /\ LET path == segments[TailPos(segments)].path
       IN  /\ fsCalls' = fsCalls \cup {<<"ReadFile", path>>}
           /\ data' = ReadFile(fs, path)
           /\ entryBuffer' = ReadFile(fs, path)
    /\ entryPositions' = NilSlice
    /\ currentPosition' = 0
    /\ pc' = "loading"
    /\ UNCHANGED <<fs, segments, sfile, logVars, err>>

\* One turn of the loop: decode an entry, or return its error.
loadSegmentEntriesNext ==
    /\ pc = "loading"
    /\ Len(data) > 0
    /\ LET next == loadNextBinaryEntry(data)
       IN  IF next.err # Nil
           THEN /\ err' = next.err
                /\ pc' = "done"
                /\ UNCHANGED loadVars
           ELSE /\ data' = SubSeq(data, next.n + 1, Len(data))
                /\ entryPositions' =
                       GoAppend(entryPositions,
                                EntryPosition(currentPosition, next.n))
                /\ currentPosition' = currentPosition + next.n
                /\ UNCHANGED <<entryBuffer, err, pc>>
    /\ UNCHANGED <<fs, segments, sfile, logVars, fsCalls>>

\* The loop is over: the cache goes on the segment.
loadSegmentEntriesDone ==
    /\ pc = "loading"
    /\ Len(data) = 0
    /\ segments' = [segments EXCEPT ![TailPos(segments)].cbuf = Slice(entryBuffer),
                                    ![TailPos(segments)].cpos = entryPositions]
    /\ err' = Nil
    /\ pc' = "done"
    /\ UNCHANGED <<fs, sfile, logVars, loadVars, fsCalls>>

Next ==
    \/ ReadDirFails
    \/ ScanDirectory
    \/ createInitialSegment
    \/ openLastSegment
    \/ loadSegmentEntriesRead
    \/ loadSegmentEntriesNext
    \/ loadSegmentEntriesDone

Spec == Init /\ [][Next]_vars

-----------------------------------------------------------------------------
(***************************************************************************)
(* What the properties are stated in.                                      *)
(***************************************************************************)
\* "18446744073709551615"
MaxUint64Name ==
    <<49, 56, 52, 52, 54, 55, 52, 52, 48, 55, 51, 55, 48, 57, 53, 53, 49, 54, 49, 53>>

\* "00000000000000000001"
FirstSegmentName ==
    <<48, 48, 48, 48, 48, 48, 48, 48, 48, 48, 48, 48, 48, 48, 48, 48, 48, 48, 48, 49>>

\* Twenty decimal digits of a value in 1 .. 2^64 - 1.
IsSegmentFileName(n) ==
    /\ Len(n) = 20
    /\ \A i \in 1..20 : n[i] \in 48..57
    /\ \E i \in 1..20 : n[i] # 48
    /\ ~LexLess(MaxUint64Name, n)

\* The segment files of a directory.
RecognizedFiles(fsys) ==
    {n \in DOMAIN fsys.entries : ~fsys.entries[n].isDir /\ IsSegmentFileName(n)}

\* The number twenty digits stand for, in limbs.
IndexOfName(n) == [k \in 1..4 |-> DecimalValue(SubSeq(n, 5 * k - 4, 5 * k))]

IsSubdirectory(fsys, n) == n \in DOMAIN fsys.entries /\ fsys.entries[n].isDir

Uncached(seg) == seg.cbuf.nil /\ seg.cpos.nil

\* The log createInitialSegment leaves on success.
FreshLog ==
    /\ err = Nil
    /\ Len(segments) = 1
    /\ segments[1].index = <<0, 0, 0, 1>>
    /\ segments[1].path = Join(LogPath, FirstSegmentName)
    /\ Uncached(segments[1])
    /\ GoLen(segments[1].cpos) = 0
    /\ FirstSegmentName \in DOMAIN fs.entries
    /\ fs.entries[FirstSegmentName] = [isDir |-> FALSE, data |-> <<>>]
    /\ sfile.open
    /\ sfile.path = segments[1].path
    /\ sfile.flag = "O_CREATE|O_RDWR|O_TRUNC"

-----------------------------------------------------------------------------
\* C1 (as stated): from a directory with no segment file, loadSegments
\* succeeds and leaves one segment of index 1, its file created empty under
\* 00000000000000000001, no cached entry, and the tail handle on that file.
C1_FreshAlways ==
    [][(pc = "scanned" /\ RecognizedFiles(fs) = {})
          => (pc' = "done" /\ FreshLog')]_vars

\* C1 (amended): the same, provided no sub-directory is named
\* 00000000000000000001; with one, the create fails and loadSegments returns
\* the file system's error, no file created and no tail handle.
C1_FreshUnlessSubdirectory ==
    [][(pc = "scanned" /\ RecognizedFiles(fs) = {})
          => /\ pc' = "done"
             /\ ~IsSubdirectory(fs, FirstSegmentName) => FreshLog'
             /\ IsSubdirectory(fs, FirstSegmentName)
                  => (err' = ErrIO /\ fs' = fs /\ ~sfile'.open)]_vars

\* C1 witness: a fresh log made in a directory that held only stray entries.
C1_Witness ==
    /\ pc = "done"
    /\ FreshLog
    /\ Cardinality(DOMAIN fs.entries) > 1

-----------------------------------------------------------------------------
-----------------------------------------------------------------------------
\* C6: after a successful loadSegments the segments are strictly ascending by
\* index, and the tail (the handle's file, the cached segment) is the segment
\* file of the greatest index.
C6_AscendingAndTailGreatest ==
    (pc = "done" /\ err = Nil) =>
        /\ \A i \in 1..Len(segments) - 1 :
              LexLess(segments[i].index, segments[i + 1].index)
        /\ \E t \in 1..Len(segments) :
              /\ sfile.open
              /\ sfile.path = segments[t].path
              /\ \A n \in RecognizedFiles(fs) :
                    \/ Join(LogPath, n) = segments[t].path
                    \/ LexLess(IndexOfName(n), segments[t].index)
              /\ \A i \in 1..Len(segments) : ~segments[i].cbuf.nil => i = t

\* C6 witness: two segment files, the second loaded as the tail.
C6_Witness ==
    /\ pc = "done"
    /\ err = Nil
    /\ Len(segments) >= 2
    /\ ~segments[Len(segments)].cbuf.nil

-----------------------------------------------------------------------------
\* C10: with a segment file in the directory no step of loadSegments creates,
\* truncates or changes a file; and a load that ends in a decode error leaves
\* every segment without buffer and position table.
C10_RecoveryKeepsFiles ==
    [][/\ RecognizedFiles(fs) # {} => fs' = fs
       /\ fs' # fs => (pc = "scanned" /\ Len(segments) = 0)
       /\ err' = ErrCorrupt
            => \A i \in 1..Len(segments') : Uncached(segments'[i])]_vars

\* C10 witness: a decode error after one entry was decoded, the file as it
\* was and nothing cached.
C10_Witness ==
    /\ pc = "done"
    /\ err = ErrCorrupt
    /\ GoLen(entryPositions) >= 1
    /\ fs.entries[segments[Len(segments)].path[2]].data = entryBuffer
    /\ Uncached(segments[Len(segments)])

-----------------------------------------------------------------------------
(***************************************************************************)
(* Records, stated without the decoder.                                    *)
(***************************************************************************)
\* The first w bytes of b are an unsigned varint that fits 64 bits.
IsVarintAt(b, w) ==
    /\ w \in 1..Len(b)
    /\ w <= 10
    /\ \A i \in 1..(w - 1) : b[i] >= 128
    /\ b[w] < 128
    /\ w = 10 => b[w] <= 1

HasVarint(b) == \E w \in 1..Len(b) : IsVarintAt(b, w)

VarintWidth(b) == CHOOSE w \in 1..Len(b) : IsVarintAt(b, w)

\* The length a varint of width w declares, when it is below 2^28.
DeclaredLength(b, w) ==
    LET d(i) == IF i <= w THEN b[i] % 128 ELSE 0
    IN  d(1) + 128 * d(2) + 16384 * d(3) + 2097152 * d(4)

\* b starts with a whole record: a varint and as many bytes as it declares.
StartsWithRecord(b) ==
    /\ HasVarint(b)
    /\ \A i \in 5..VarintWidth(b) : b[i] % 128 = 0
    /\ VarintWidth(b) + DeclaredLength(b, VarintWidth(b)) <= Len(b)

RecordLength(b) == VarintWidth(b) + DeclaredLength(b, VarintWidth(b))

RECURSIVE Framed(_)
\* b is empty or whole records, the varints as Uvarint reads them.
Framed(b) ==
    \/ b = <<>>
    \/ /\ StartsWithRecord(b)
       /\ Framed(SubSeq(b, RecordLength(b) + 1, Len(b)))

RECURSIVE RecordCount(_)
RecordCount(b) ==
    IF b = <<>> THEN 0 ELSE 1 + RecordCount(SubSeq(b, RecordLength(b) + 1, Len(b)))

RECURSIVE PutUvarint(_)
\* The varint of n: the fewest bytes.
PutUvarint(n) ==
    IF n < 128 THEN <<n>> ELSE <<128 + (n % 128)>> \o PutUvarint(n \div 128)

RECURSIVE Encoded(_)
\* b is empty or whole records varint(len) || payload as the encoder writes
\* them.
Encoded(b) ==
    \/ b = <<>>
    \/ /\ StartsWithRecord(b)
       /\ SubSeq(b, 1, VarintWidth(b)) = PutUvarint(DeclaredLength(b, VarintWidth(b)))
       /\ Encoded(SubSeq(b, RecordLength(b) + 1, Len(b)))

\* loadSegmentEntries has read the tail file.
TailRead == \E c \in fsCalls : c[1] = "ReadFile"

TailSegment == segments[Len(segments)]

-----------------------------------------------------------------------------
\* C2 (as stated): a tail file that is whole records followed by one or more
\* bytes of garbage always makes the load fail with ErrCorrupt.
C2_GarbageAlwaysCorrupt ==
    (pc = "done" /\ TailRead) =>
        \A k \in 0..(Len(entryBuffer) - 1) :
            Encoded(SubSeq(entryBuffer, 1, k)) => err = ErrCorrupt

\* C2 (amended): such a file makes the load fail with ErrCorrupt exactly when
\* the garbage is not itself whole records; garbage that is (a single 0x00
\* byte, say) is accepted as entries.
C2_GarbageCorruptUnlessFramed ==
    (pc = "done" /\ TailRead) =>
        \A k \in 0..(Len(entryBuffer) - 1) :
            Framed(SubSeq(entryBuffer, 1, k)) =>
                /\ err \in {Nil, ErrCorrupt}
                /\ err = ErrCorrupt
                     <=> ~Framed(SubSeq(entryBuffer, k + 1, Len(entryBuffer)))

\* C2 witness: a record, then garbage that does not decode: ErrCorrupt.
C2_Witness ==
    /\ pc = "done"
    /\ TailRead
    /\ err = ErrCorrupt
    /\ GoLen(entryPositions) >= 1
    /\ Encoded(SubSeq(entryBuffer, 1, currentPosition))

-----------------------------------------------------------------------------
\* C3 (as stated): the load of the tail succeeds iff the file is empty or
\* whole records varint(len) || payload, then caching one position a record;
\* otherwise it returns ErrCorrupt.
C3_SucceedsIffEncoded ==
    (pc = "done" /\ TailRead) =>
        /\ err = Nil <=> Encoded(entryBuffer)
        /\ err = Nil => GoLen(TailSegment.cpos) = RecordCount(entryBuffer)
        /\ ~Encoded(entryBuffer) => err = ErrCorrupt

\* C3 (amended): the same with the length prefix being any varint Uvarint
\* decodes, of 1 to 10 bytes and not only the shortest (0x80 0x00 declares
\* length 0).
C3_SucceedsIffFramed ==
    (pc = "done" /\ TailRead) =>
        /\ err = Nil <=> Framed(entryBuffer)
        /\ err = Nil => GoLen(TailSegment.cpos) = RecordCount(entryBuffer)
        /\ ~Framed(entryBuffer) => err = ErrCorrupt

\* C3 witness: a file of two records, one of declared length 0, loaded.
C3_Witness ==
    /\ pc = "done"
    /\ TailRead
    /\ err = Nil
    /\ entryBuffer = <<0, 1, 2>>
    /\ GoLen(TailSegment.cpos) = 2

-----------------------------------------------------------------------------
\* C7: loadNextBinaryEntry returns (0, ErrCorrupt) when the buffer starts
\* with no varint of at most 64 bits or the varint declares more bytes than
\* follow it; else the varint's width plus the declared length, between 1 and
\* the length of the buffer, whatever the payload bytes are.
C7_LoadNextBinaryEntry ==
    pc = "loading" =>
        LET r == loadNextBinaryEntry(data)
        IN  IF ~StartsWithRecord(data)
            THEN r = [n |-> 0, err |-> ErrCorrupt]
            ELSE /\ r.err = Nil
                 /\ r.n = VarintWidth(data) + DeclaredLength(data, VarintWidth(data))
                 /\ r.n >= 1
                 /\ r.n <= Len(data)
                 /\ loadNextBinaryEntry(
                        [i \in 1..Len(data) |->
                            IF i <= VarintWidth(data) THEN data[i] ELSE 0]) = r

\* C7 witness: an entry with a varint of nine bytes was decoded, and the
\* bytes left are too few for the length they declare.
C7_Witness ==
    /\ pc = "loading"
    /\ GoLen(entryPositions) = 1
    /\ entryPositions.elems[1].end = 9
    /\ data = <<2, 1>>

-----------------------------------------------------------------------------
\* C8: after a successful load the tail's buffer is the file and its position
\* table cuts the buffer front to back: from 0, each range non-empty and
\* ending where the next starts, the last at the end of the buffer, each
\* range one record (its varint and its payload).
C8_PositionsPartitionBuffer ==
    (pc = "done" /\ TailRead /\ err = Nil) =>
        LET buf == TailSegment.cbuf.elems
            pos == TailSegment.cpos.elems
        IN  /\ ~TailSegment.cbuf.nil
            /\ buf = fs.entries[TailSegment.path[2]].data
            /\ pos = <<>> <=> buf = <<>>
            /\ pos # <<>> => (pos[1].start = 0 /\ pos[Len(pos)].end = Len(buf))
            /\ \A k \in 1..Len(pos) :
                  /\ pos[k].start < pos[k].end
                  /\ k < Len(pos) => pos[k].end = pos[k + 1].start
                  /\ LET rec == SubSeq(buf, pos[k].start + 1, pos[k].end)
                     IN  StartsWithRecord(rec) /\ RecordLength(rec) = Len(rec)

\* C8 witness: a buffer cut in two ranges, the second longer than one byte.
C8_Witness ==
    /\ pc = "done"
    /\ TailRead
    /\ err = Nil
    /\ GoLen(TailSegment.cpos) = 2
    /\ TailSegment.cpos.elems[2].end - TailSegment.cpos.elems[2].start = 2

-----------------------------------------------------------------------------
\* C9: only the tail segment is ever opened, read or cached: an earlier
\* segment keeps a nil buffer and a nil position table, its file is neither
\* opened nor read, and what it holds does not decide the load.
C9_OnlyTailLoaded ==
    /\ \A i \in 1..Len(segments) - 1 :
          /\ Uncached(segments[i])
          /\ \A c \in fsCalls : c[2] # segments[i].path
    /\ (pc = "done" /\ Len(segments) >= 2)
          => /\ <<"ReadFile", segments[Len(segments)].path>> \in fsCalls
             /\ err \in {Nil, ErrCorrupt}
             /\ err = Nil <=> Framed(fs.entries[segments[Len(segments)].path[2]].data)
             /\ err = Nil => ~segments[Len(segments)].cbuf.nil

\* C9 witness: a load that succeeded past an earlier segment whose bytes do
\* not decode.
C9_Witness ==
    /\ pc = "done"
    /\ err = Nil
    /\ Len(segments) = 2
    /\ fs.entries[segments[1].path[2]].data = <<2, 65>>
    /\ GoLen(segments[2].cpos) = 1

-----------------------------------------------------------------------------
\* C4: a decode failure of the tail sets l.corrupt, and the load returns
\* ErrCorrupt.
C4_DecodeFailureSetsCorrupt ==
    (pc = "done" /\ TailRead /\ ~Framed(entryBuffer)) =>
        (err = ErrCorrupt /\ corrupt = TRUE)

=============================================================================
